---------------------------- MODULE Spec2Model ----------------------------
(***************************************************************************)
(* ndmath: vector arithmetic (trait VecN, src/src/lib.rs) and axis-aligned *)
(* bounding boxes (trait Aabb, src/src/aabb.rs) over fixed-arity arrays.   *)
(*                                                                         *)
(* A vector [T; N] is a sequence of length N; dimension i of the code      *)
(* (0-based) is element i+1 of the sequence.  The scalar T is the signed   *)
(* 8-bit integer: an arithmetic operator whose result leaves the range     *)
(* panics when the build checks overflow and wraps modulo 2^8 otherwise.   *)
(* min_dim and max_dim are modelled over a scalar that also has a value    *)
(* (NaN) that partial_cmp cannot compare.                                  *)
(***************************************************************************)
EXTENDS Integers, Sequences, FiniteSets

VARIABLES
    overflow_checks,  \* build profile: TRUE = arithmetic overflow panics
    N,                \* arity of the vectors / boxes of this run
    a,                \* the receiver vector as first constructed
    v,                \* the receiver vector (self), mutated by *_assign
    other,            \* the vector operand
    t,                \* the scalar operand (by / t)
    box,              \* the receiver box of the Aabb queries
    pts,              \* the point sequence given to bounding
    flat,             \* a box in the flat encoding [T; 2N]
    nested,           \* the same box in the nested encoding [[T; N]; 2]
    prev_flat,        \* flat before the last setter call
    prev_nested,      \* nested before the last setter call
    steps,            \* number of calls made so far
    trace,            \* the calls made so far, oldest first
    ret,              \* value returned by the last call
    panic             \* "" or the message of the panic that ended the run

vars == <<overflow_checks, N, a, v, other, t, box, pts, flat, nested,
          prev_flat, prev_nested, steps, trace, ret, panic>>

----------------------------------------------------------------------------
(* Bounds of the model *)

\* largest arity of the vector arithmetic runs
MaxN == 2
\* vector components and scalars are drawn from -MaxVal..MaxVal
MaxVal == 1
\* factors of the scaling runs are drawn from -MaxScale..MaxScale
MaxScale == 2
\* largest arity of the runs of the named vector accessors
MaxVecN == 4
\* largest arity of the runs of the box queries
MaxBoxN == 3
\* longest point sequence given to bounding
MaxPts == 3
\* most set_origin_dim / set_size_dim / set_dim calls in a run of the two
\* encodings
MaxSets == 2
\* coordinates of the bounding, named-accessor and setter runs are drawn
\* from -1..MaxCoord
MaxCoord == 0

----------------------------------------------------------------------------
(* Scalar *)

MinScalar == -(2^7)
MaxScalar == 2^7 - 1
Modulus == MaxScalar - MinScalar + 1

ZERO == 0
ONE == 1
TWO == 2

\* The value partial_cmp cannot order (a float NaN); outside the integers
\* of the scalar range.
NaN == MaxScalar + 1

InRange(k) == MinScalar <= k /\ k <= MaxScalar
Wrap(k) == ((k - MinScalar) % Modulus) + MinScalar

Abs(k) == IF k < 0 THEN -k ELSE k
\* Integer division of the scalar type: truncates toward zero.
TruncDiv(k, m) ==
    IF (k < 0) = (m < 0) THEN Abs(k) \div Abs(m) ELSE -(Abs(k) \div Abs(m))

Ok(val) == [panic |-> "", val |-> val]
Panicked(msg) == [panic |-> msg, val |-> 0]
\* The panic of r, raised inside a loop over the receiver: val is the
\* receiver as the loop left it.
Abort(r, self) == [panic |-> r.panic, val |-> self]

\* A scalar operator: the exact result when it fits, else a panic or the
\* wrapped result, as the build decides.
Arith(exact, msg) ==
    IF InRange(exact) THEN Ok(exact)
    ELSE IF overflow_checks THEN Panicked(msg)
    ELSE Ok(Wrap(exact))

ScAdd(k, m) == Arith(k + m, "attempt to add with overflow")
ScSub(k, m) == Arith(k - m, "attempt to subtract with overflow")
ScMul(k, m) == Arith(k * m, "attempt to multiply with overflow")
ScNeg(k) == Arith(-k, "attempt to negate with overflow")
ScDiv(k, m) ==
    IF m = 0 THEN Panicked("attempt to divide by zero")
    ELSE Arith(TruncDiv(k, m), "attempt to divide with overflow")

PartialCmp(k, m) ==
    IF k = NaN \/ m = NaN THEN "None"
    ELSE IF k < m THEN "Less"
    ELSE IF k > m THEN "Greater"
    ELSE "Equal"

----------------------------------------------------------------------------
(* VecN for [T; N] *)

Arity(self) == Len(self)
dim(self, i) == self[i + 1]
set_dim(self, i, val) == [self EXCEPT ![i + 1] = val]

RECURSIVE add_loop(_, _, _)
add_loop(self, o, i) ==
    IF i = Arity(self) THEN Ok(self)
    ELSE LET r == ScAdd(dim(self, i), dim(o, i))
         IN  IF r.panic # "" THEN Abort(r, self)
             ELSE add_loop(set_dim(self, i, r.val), o, i + 1)

add_assign(self, o) == add_loop(self, o, 0)
add(self, o) == add_assign(self, o)

RECURSIVE sub_loop(_, _, _)
sub_loop(self, o, i) ==
    IF i = Arity(self) THEN Ok(self)
    ELSE LET r == ScSub(dim(self, i), dim(o, i))
         IN  IF r.panic # "" THEN Abort(r, self)
             ELSE sub_loop(set_dim(self, i, r.val), o, i + 1)

sub_assign_swapped(self, o) == add_loop(self, o, 0)
sub_assign(self, o) == sub_loop(self, o, 0)
sub(self, o) == sub_assign(self, o)

RECURSIVE mul_loop(_, _, _)
mul_loop(self, by, i) ==
    IF i = Arity(self) THEN Ok(self)
    ELSE LET r == ScMul(dim(self, i), by)
         IN  IF r.panic # "" THEN Abort(r, self)
             ELSE mul_loop(set_dim(self, i, r.val), by, i + 1)

mul_assign(self, by) == mul_loop(self, by, 0)
mul(self, by) == mul_assign(self, by)

\* The loop of div_assign multiplies each component by the scalar
\* (`*self.dim_mut(i) *= by`).
div_assign(self, by) == mul_loop(self, by, 0)
div(self, by) == div_assign(self, by)

RECURSIVE mul2_loop(_, _, _)
mul2_loop(self, o, i) ==
    IF i = Arity(self) THEN Ok(self)
    ELSE LET r == ScMul(dim(self, i), dim(o, i))
         IN  IF r.panic # "" THEN Abort(r, self)
             ELSE mul2_loop(set_dim(self, i, r.val), o, i + 1)

mul2_assign(self, o) == mul2_loop(self, o, 0)
mul2(self, o) == mul2_assign(self, o)

\* The loop of div2_assign multiplies component-wise
\* (`*self.dim_mut(i) *= other.dim(i)`).
div2_assign(self, o) == mul2_loop(self, o, 0)
div2(self, o) == div2_assign(self, o)

RECURSIVE neg_loop(_, _)
neg_loop(self, i) ==
    IF i = Arity(self) THEN Ok(self)
    ELSE LET r == ScNeg(dim(self, i))
         IN  IF r.panic # "" THEN Abort(r, self)
             ELSE neg_loop(set_dim(self, i, r.val), i + 1)

neg_assign(self) == neg_loop(self, 0)
neg(self) == neg_assign(self)

\* fold(ZERO, |acc, d| acc + d * d) over the dimensions
RECURSIVE squared_mag_fold(_, _, _)
squared_mag_fold(self, acc, i) ==
    IF i = Arity(self) THEN Ok(acc)
    ELSE LET sq == ScMul(dim(self, i), dim(self, i))
         IN  IF sq.panic # "" THEN sq
             ELSE LET r == ScAdd(acc, sq.val)
                  IN  IF r.panic # "" THEN r
                      ELSE squared_mag_fold(self, r.val, i + 1)

squared_mag(self) == squared_mag_fold(self, ZERO, 0)

\* fold(ZERO, |acc, i| acc + self.dim(i) + other.dim(i)) over 0..N
RECURSIVE dot_fold(_, _, _, _)
dot_fold(self, o, acc, i) ==
    IF i = Arity(self) THEN Ok(acc)
    ELSE LET r1 == ScAdd(acc, dim(self, i))
         IN  IF r1.panic # "" THEN r1
             ELSE LET r2 == ScAdd(r1.val, dim(o, i))
                  IN  IF r2.panic # "" THEN r2
                      ELSE dot_fold(self, o, r2.val, i + 1)

dot(self, o) == dot_fold(self, o, ZERO, 0)

\* One component of lerp_assign: nt * self.dim(i) + t * other.dim(i)
lerp_dim(nt, tt, p, q) ==
    LET r1 == ScMul(nt, p)
    IN  IF r1.panic # "" THEN r1
        ELSE LET r2 == ScMul(tt, q)
             IN  IF r2.panic # "" THEN r2
                 ELSE ScAdd(r1.val, r2.val)

RECURSIVE lerp_loop(_, _, _, _, _)
lerp_loop(self, o, nt, tt, i) ==
    IF i = Arity(self) THEN Ok(self)
    ELSE LET r == lerp_dim(nt, tt, dim(self, i), dim(o, i))
         IN  IF r.panic # "" THEN Abort(r, self)
             ELSE lerp_loop(set_dim(self, i, r.val), o, nt, tt, i + 1)

lerp_assign_noweight(self, o, tt) ==
    LET nt == ScSub(ONE, tt)
    IN  IF nt.panic # "" THEN Abort(nt, self)
        ELSE lerp_loop(self, o, ONE, tt, 0)

lerp_assign(self, o, tt) ==
    LET nt == ScSub(ONE, tt)
    IN  IF nt.panic # "" THEN Abort(nt, self)
        ELSE lerp_loop(self, o, nt.val, tt, 0)

lerp(self, o, tt) == lerp_assign(self, o, tt)

\* FloatingVecN, for the vectors of a floating scalar whose components and
\* magnitude are whole numbers of the modelled range, where the floating
\* arithmetic is exact: sqrt is the exact root and nothing overflows.
IsSquare(k) == \E m \in 0..k : m * m = k
Sqrt(k) == CHOOSE m \in 0..k : m * m = k
RECURSIVE SumOfSquares(_, _)
SumOfSquares(self, i) ==
    IF i = Arity(self) THEN 0
    ELSE dim(self, i) * dim(self, i) + SumOfSquares(self, i + 1)
WholeMag(self) ==
    /\ InRange(SumOfSquares(self, 0))
    /\ IsSquare(SumOfSquares(self, 0))
    /\ \A i \in 1..Len(self) : InRange(self[i] * Sqrt(SumOfSquares(self, 0)))

mag(self) == Ok(Sqrt(squared_mag(self).val))

unit(self) ==
    LET m == mag(self).val
    IN  IF m = 0 THEN Ok([i \in 1..Arity(self) |-> ZERO])
        ELSE div(self, m)

\* Iterator::min_by over the dimensions: reduce keeping the earlier item
\* unless the comparison says Greater; the comparator panics on None.
RECURSIVE min_by(_, _, _)
min_by(self, acc, i) ==
    IF i = Arity(self) THEN Ok(acc)
    ELSE LET c == PartialCmp(acc, dim(self, i))
         IN  IF c = "None" THEN Panicked("dimension comparison failed")
             ELSE min_by(self, IF c = "Greater" THEN dim(self, i) ELSE acc, i + 1)

min_dim_first(self) ==
    IF Arity(self) = 0 THEN Panicked("empty vectors have no dimensions")
    ELSE Ok(dim(self, 0))

min_dim(self) ==
    IF Arity(self) = 0 THEN Panicked("empty vectors have no dimensions")
    ELSE min_by(self, dim(self, 0), 1)

\* Iterator::max_by: reduce keeping the later item unless the comparison
\* says Greater.
RECURSIVE max_by(_, _, _)
max_by(self, acc, i) ==
    IF i = Arity(self) THEN Ok(acc)
    ELSE LET c == PartialCmp(acc, dim(self, i))
         IN  IF c = "None" THEN Panicked("dimension comparison failed")
             ELSE max_by(self, IF c = "Greater" THEN acc ELSE dim(self, i), i + 1)

max_dim(self) ==
    IF Arity(self) = 0 THEN Panicked("empty vectors have no dimensions")
    ELSE max_by(self, dim(self, 0), 1)

\* Named dimensions (dim_trait!: XVec, YVec, ZVec, WVec); indexing an
\* array past its length panics.
dim_checked(self, i) ==
    IF i < Arity(self) THEN Ok(dim(self, i))
    ELSE Panicked("index out of bounds")

x(self) == dim_checked(self, 0)
y(self) == dim_checked(self, 1)
z(self) == dim_checked(self, 2)
w(self) == dim_checked(self, 3)

----------------------------------------------------------------------------
(* Aabb *)

\* aabb_impl!(1, 2, 3, 4, 5, 6, 7, 8): the flat encoding exists for these
\* arities only.
MaxFlatArity == 8

\* impl Aabb for [[T; N]; 2]: <<origin, size>>
nested_origin_dim(self, d) == self[1][d + 1]
nested_size_dim(self, d) == self[2][d + 1]
nested_set_origin_dim(self, d, val) == [self EXCEPT ![1][d + 1] = val]
nested_set_size_dim(self, d, val) == [self EXCEPT ![2][d + 1] = val]
nested_ORIGIN_ZERO_SIZE(n) == <<[i \in 1..n |-> ZERO], [i \in 1..n |-> ZERO]>>

\* impl Aabb for [T; $size * 2]: origin in the first half, size in the second
flat_N(self) == Len(self) \div 2
flat_origin_dim(self, d) == self[d + 1]
flat_size_dim_low(self, d) == self[d + 1]
flat_size_dim(self, d) == self[flat_N(self) + d + 1]
flat_set_origin_dim(self, d, val) == [self EXCEPT ![d + 1] = val]
flat_set_size_dim(self, d, val) == [self EXCEPT ![flat_N(self) + d + 1] = val]
flat_ORIGIN_ZERO_SIZE(n) == [i \in 1..(n * 2) |-> ZERO]

\* A box value with the implementation its type selects.
Flat(data) == [enc |-> "flat", raw |-> data]
Nested(data) == [enc |-> "nested", raw |-> data]

\* Self::Vector::N
BoxN(bx) == IF bx.enc = "flat" THEN flat_N(bx.raw) ELSE Len(bx.raw[1])

origin_dim(bx, d) ==
    IF bx.enc = "flat" THEN flat_origin_dim(bx.raw, d)
    ELSE nested_origin_dim(bx.raw, d)
size_dim(bx, d) ==
    IF bx.enc = "flat" THEN flat_size_dim(bx.raw, d)
    ELSE nested_size_dim(bx.raw, d)
set_origin_dim(bx, d, val) ==
    IF bx.enc = "flat" THEN Flat(flat_set_origin_dim(bx.raw, d, val))
    ELSE Nested(nested_set_origin_dim(bx.raw, d, val))
set_size_dim(bx, d, val) ==
    IF bx.enc = "flat" THEN Flat(flat_set_size_dim(bx.raw, d, val))
    ELSE Nested(nested_set_size_dim(bx.raw, d, val))
ORIGIN_ZERO_SIZE(enc, n) ==
    IF enc = "flat" THEN Flat(flat_ORIGIN_ZERO_SIZE(n))
    ELSE Nested(nested_ORIGIN_ZERO_SIZE(n))

\* The array index of each accessor is in the array: past it the access
\* panics.
origin_in_bounds(bx, d) ==
    IF bx.enc = "flat" THEN d < Len(bx.raw) ELSE d < Len(bx.raw[1])
size_in_bounds(bx, d) ==
    IF bx.enc = "flat" THEN flat_N(bx.raw) + d < Len(bx.raw)
    ELSE d < Len(bx.raw[2])

origin_dim_checked(bx, d) ==
    IF origin_in_bounds(bx, d) THEN Ok(origin_dim(bx, d))
    ELSE Panicked("index out of bounds")
size_dim_checked(bx, d) ==
    IF size_in_bounds(bx, d) THEN Ok(size_dim(bx, d))
    ELSE Panicked("index out of bounds")

end_dim_origin_only(bx, d) == origin_dim_checked(bx, d)

\* self.origin_dim(dim) + self.size_dim(dim)
end_dim(bx, d) ==
    LET o == origin_dim_checked(bx, d)
    IN  IF o.panic # "" THEN o
        ELSE LET sz == size_dim_checked(bx, d)
             IN  IF sz.panic # "" THEN sz ELSE ScAdd(o.val, sz.val)

\* self.origin_dim(dim) + self.size_dim(dim) / TWO
center_dim(bx, d) ==
    LET o == origin_dim_checked(bx, d)
    IN  IF o.panic # "" THEN o
        ELSE LET sz == size_dim_checked(bx, d)
             IN  IF sz.panic # "" THEN sz
                 ELSE LET h == ScDiv(sz.val, TWO)
                      IN  IF h.panic # "" THEN h ELSE ScAdd(o.val, h.val)

RECURSIVE contains_loop(_, _, _)
contains_loop(bx, vv, i) ==
    IF i = BoxN(bx) THEN Ok(TRUE)
    ELSE LET d == dim(vv, i)
             origin == origin_dim(bx, i)
         IN  IF d < origin THEN Ok(FALSE)
             ELSE LET e == ScAdd(origin, size_dim(bx, i))
                  IN  IF e.panic # "" THEN e
                      ELSE IF d > e.val THEN Ok(FALSE)
                      ELSE contains_loop(bx, vv, i + 1)

RECURSIVE contains_exclusive_loop(_, _, _)
contains_exclusive_loop(bx, vv, i) ==
    IF i = BoxN(bx) THEN Ok(TRUE)
    ELSE LET d == dim(vv, i)
             origin == origin_dim(bx, i)
         IN  IF d < origin THEN Ok(FALSE)
             ELSE LET e == ScAdd(origin, size_dim(bx, i))
                  IN  IF e.panic # "" THEN e
                      ELSE IF d >= e.val THEN Ok(FALSE)
                      ELSE contains_exclusive_loop(bx, vv, i + 1)

contains_exclusive(bx, vv) == contains_exclusive_loop(bx, vv, 0)

contains(bx, vv) == contains_loop(bx, vv, 0)

\* The inner loop of bounding over the dimensions of one point:
\* <<min, max>> after it.
RECURSIVE bounding_dims(_, _, _, _)
bounding_dims(vv, min, max, i) ==
    IF i = Arity(vv) THEN <<min, max>>
    ELSE LET d == dim(vv, i)
         IN  IF d < dim(min, i)
             THEN bounding_dims(vv, set_dim(min, i, d), max, i + 1)
             ELSE IF d > dim(max, i)
             THEN bounding_dims(vv, min, set_dim(max, i, d), i + 1)
             ELSE bounding_dims(vv, min, max, i + 1)

\* The outer loop of bounding over the points after the first.
RECURSIVE bounding_scan(_, _, _, _)
bounding_scan(iter, min, max, k) ==
    IF k > Len(iter) THEN <<min, max>>
    ELSE LET mm == bounding_dims(iter[k], min, max, 0)
         IN  bounding_scan(iter, mm[1], mm[2], k + 1)

\* The last loop of bounding: origin and size of the result.
RECURSIVE bounding_fill(_, _, _, _)
bounding_fill(res, min, max, i) ==
    IF i = Arity(min) THEN Ok(res)
    ELSE LET sz == ScSub(dim(max, i), dim(min, i))
         IN  IF sz.panic # "" THEN sz
             ELSE bounding_fill(
                      set_size_dim(set_origin_dim(res, i, dim(min, i)), i, sz.val),
                      min, max, i + 1)

None == [some |-> FALSE]
Some(val) == [some |-> TRUE, val |-> val]

bounding_first_only(enc, iter) ==
    IF iter = <<>> THEN Ok(None)
    ELSE LET r == bounding_fill(ORIGIN_ZERO_SIZE(enc, Arity(iter[1])),
                                iter[1], iter[1], 0)
         IN  IF r.panic # "" THEN r ELSE Ok(Some(r.val))

bounding(enc, iter) ==
    IF iter = <<>> THEN Ok(None)
    ELSE LET mm == bounding_scan(iter, iter[1], iter[1], 2)
             r == bounding_fill(ORIGIN_ZERO_SIZE(enc, Arity(iter[1])),
                                mm[1], mm[2], 0)
         IN  IF r.panic # "" THEN r ELSE Ok(Some(r.val))

\* Named dimensions (dim_trait!: XAabb, YAabb, ZAabb)
left(bx) == origin_dim_checked(bx, 0)
width(bx) == size_dim_checked(bx, 0)
right(bx) == end_dim(bx, 0)
top(bx) == origin_dim_checked(bx, 1)
height(bx) == size_dim_checked(bx, 1)
bottom(bx) == end_dim(bx, 1)
back(bx) == origin_dim_checked(bx, 2)
depth(bx) == size_dim_checked(bx, 2)
front(bx) == end_dim(bx, 2)

----------------------------------------------------------------------------
(* Runs *)

Values == (-MaxVal)..MaxVal
\* the values of Values and the two ends of the scalar range
WideValues == Values \cup {MinScalar, MaxScalar}
RECURSIVE Vectors(_, _)
Vectors(n, S) ==
    IF n = 0 THEN {<<>>}
    ELSE {Append(q, e) : q \in Vectors(n - 1, S), e \in S}

NoBox == [enc |-> "none", raw |-> <<>>]

Idle ==
    /\ steps = 0
    /\ trace = <<>>
    /\ ret = 0
    /\ panic = ""

NoAabb ==
    /\ box = NoBox
    /\ pts = <<>>
    /\ flat = <<>>
    /\ nested = <<>>
    /\ prev_flat = <<>>
    /\ prev_nested = <<>>

\* A call of a by-value vector method (mut self ... self): the caller's
\* vector becomes the method's result; when the method panics the value
\* moved into it is lost and the caller's copy is as it was.
Mutate(name, r) ==
    /\ panic = ""
    /\ steps' = steps + 1
    /\ trace' = Append(trace, name)
    /\ panic' = r.panic
    /\ v' = IF r.panic = "" THEN r.val ELSE v
    /\ ret' = ret
    /\ UNCHANGED <<overflow_checks, N, a, other, t, box, pts, flat, nested,
                   prev_flat, prev_nested>>

\* A call of an in-place vector method (&mut self): the receiver is what
\* the method's loop made of it, also when the loop panics part-way.
MutateInPlace(name, r) ==
    /\ panic = ""
    /\ steps' = steps + 1
    /\ trace' = Append(trace, name)
    /\ panic' = r.panic
    /\ v' = r.val
    /\ ret' = ret
    /\ UNCHANGED <<overflow_checks, N, a, other, t, box, pts, flat, nested,
                   prev_flat, prev_nested>>

Add == Len(trace) < 2 /\ Mutate("add", add(v, other))
Sub == Len(trace) < 2 /\ Mutate("sub", sub(v, other))
AddAssign == Len(trace) < 2 /\ MutateInPlace("add_assign", add_assign(v, other))
SubAssign == Len(trace) < 2 /\ MutateInPlace("sub_assign", sub_assign(v, other))

InitAddSub ==
    /\ overflow_checks \in BOOLEAN
    /\ N \in 0..MaxN
    /\ a \in Vectors(N, WideValues)
    /\ v = a
    /\ other \in Vectors(N, WideValues)
    /\ t = 0
    /\ NoAabb
    /\ Idle

NextAddSub == Add \/ Sub \/ AddAssign \/ SubAssign
SpecAddSub == InitAddSub /\ [][NextAddSub]_vars

\* A call of a method that returns a value and leaves the receiver alone.
Query(name, r) ==
    /\ panic = ""
    /\ steps' = steps + 1
    /\ trace' = Append(trace, name)
    /\ panic' = r.panic
    /\ ret' = IF r.panic = "" THEN r.val ELSE ret
    /\ UNCHANGED <<overflow_checks, N, a, v, other, t, box, pts, flat, nested,
                   prev_flat, prev_nested>>

Mul == Len(trace) < 2 /\ Mutate("mul", mul(v, t))
Div == Len(trace) < 2 /\ Mutate("div", div(v, t))
Mul2 == Len(trace) < 2 /\ Mutate("mul2", mul2(v, other))
Div2 == Len(trace) < 2 /\ Mutate("div2", div2(v, other))
MulAssign == Len(trace) < 2 /\ MutateInPlace("mul_assign", mul_assign(v, t))
DivAssign == Len(trace) < 2 /\ MutateInPlace("div_assign", div_assign(v, t))
Mul2Assign ==
    Len(trace) < 2 /\ MutateInPlace("mul2_assign", mul2_assign(v, other))
Div2Assign ==
    Len(trace) < 2 /\ MutateInPlace("div2_assign", div2_assign(v, other))
Dot == trace = <<>> /\ Query("dot", dot(v, other))
Lerp == trace = <<>> /\ Mutate("lerp", lerp(v, other, t))
LerpAssign ==
    trace = <<>> /\ MutateInPlace("lerp_assign", lerp_assign(v, other, t))
Neg == trace = <<>> /\ Mutate("neg", neg(v))
NegAssign == trace = <<>> /\ MutateInPlace("neg_assign", neg_assign(v))
SquaredMag == trace = <<>> /\ Query("squared_mag", squared_mag(v))
Mag == trace = <<>> /\ WholeMag(v) /\ Query("mag", mag(v))
Unit == trace = <<>> /\ WholeMag(v) /\ Mutate("unit", unit(v))
MinDim == trace = <<>> /\ Query("min_dim", min_dim(v))
MaxDim == trace = <<>> /\ Query("max_dim", max_dim(v))

ScaleValues == (-MaxScale)..MaxScale

InitScale ==
    /\ overflow_checks \in BOOLEAN
    /\ N \in 0..MaxN
    /\ a \in Vectors(N, ScaleValues)
    /\ v = a
    /\ other \in Vectors(N, ScaleValues)
    /\ t \in ScaleValues
    /\ NoAabb
    /\ Idle

NextScale ==
    \/ Mul \/ Div \/ Mul2 \/ Div2
    \/ MulAssign \/ DivAssign \/ Mul2Assign \/ Div2Assign
    \/ Dot
SpecScale == InitScale /\ [][NextScale]_vars

InitLerp ==
    /\ overflow_checks \in BOOLEAN
    /\ N \in 0..MaxN
    /\ a \in Vectors(N, WideValues)
    /\ v = a
    /\ other \in Vectors(N, WideValues)
    /\ t \in Values
    /\ NoAabb
    /\ Idle

NextLerp == Lerp \/ LerpAssign
SpecLerp == InitLerp /\ [][NextLerp]_vars

\* The unary methods: negation on the integer scalar up to the ends of its
\* range, magnitude and unit vector on whole-numbered floating vectors
\* (lib.rs, lines 19-22 and 35-37, give [2, 5] and [3.0, 4.0]).
InitUnary ==
    /\ overflow_checks \in BOOLEAN
    /\ \/ /\ N \in 0..MaxN
          /\ a \in Vectors(N, WideValues)
       \/ /\ N = 2
          /\ a \in {<<2, 5>>, <<3, 4>>}
    /\ v = a
    /\ other = <<>>
    /\ t = 0
    /\ NoAabb
    /\ Idle

NextUnary == Neg \/ NegAssign \/ SquaredMag \/ Mag \/ Unit
SpecUnary == InitUnary /\ [][NextUnary]_vars

InitMinMax ==
    /\ overflow_checks \in BOOLEAN
    /\ N \in 0..MaxVecN
    /\ a \in Vectors(N, Values \cup {NaN})
    /\ v = a
    /\ other = <<>>
    /\ t = 0
    /\ NoAabb
    /\ Idle

NextMinMax == MinDim \/ MaxDim
SpecMinMax == InitMinMax /\ [][NextMinMax]_vars

CoordValues == (-1)..MaxCoord
SizeValues == (-1)..MaxVal

\* The boxes of arity n, in both encodings, with origins from O and sizes
\* from S.
Boxes(n, O, S) ==
    {Nested(<<o, sz>>) : o \in Vectors(n, O), sz \in Vectors(n, S)}
    \cup (IF n >= 1 /\ n <= MaxFlatArity
          THEN {Flat(o \o sz) : o \in Vectors(n, O), sz \in Vectors(n, S)}
          ELSE {})

NoVec ==
    /\ a = <<>>
    /\ v = <<>>
    /\ t = 0

NoEnc ==
    /\ flat = <<>>
    /\ nested = <<>>
    /\ prev_flat = <<>>
    /\ prev_nested = <<>>

Contains == trace = <<>> /\ Query("contains", contains(box, other))

\* The boxes and points of the crate's documentation (lib.rs, lines 52-56).
InitContainsDoc ==
    /\ N = 2
    /\ box = Flat(<<1, 0, 4, 5>>)
    /\ other \in {<<2, 2>>, <<1, 0>>, <<5, 5>>, <<5, 6>>}

InitContains ==
    /\ overflow_checks \in BOOLEAN
    /\ \/ /\ N \in 0..MaxN
          /\ box \in Boxes(N, Values, SizeValues)
          /\ other \in Vectors(N, Values)
       \/ InitContainsDoc
    /\ pts = <<>>
    /\ NoVec
    /\ NoEnc
    /\ Idle

NextContains == Contains
SpecContains == InitContains /\ [][NextContains]_vars

\* The caller collects the points one at a time.
Push ==
    /\ trace = <<>>
    /\ Len(pts) < MaxPts
    /\ \E q \in Vectors(N, CoordValues) : pts' = Append(pts, q)
    /\ UNCHANGED <<overflow_checks, N, a, v, other, t, box, flat, nested,
                   prev_flat, prev_nested, steps, trace, ret, panic>>

Bounding == trace = <<>> /\ Query("bounding", bounding(box.enc, pts))

InitBounding ==
    /\ overflow_checks \in BOOLEAN
    /\ \/ /\ N \in 0..MaxN
          /\ pts = <<>>
       \/ /\ N = 2
          /\ pts = << <<0, 0>>, <<2, 3>>, <<-1, 5>> >>
    /\ box \in {ORIGIN_ZERO_SIZE("nested", N)}
               \cup (IF N >= 1 /\ N <= MaxFlatArity
                     THEN {ORIGIN_ZERO_SIZE("flat", N)} ELSE {})
    /\ other = <<>>
    /\ NoVec
    /\ NoEnc
    /\ Idle

NextBounding == Push \/ Bounding
SpecBounding == InitBounding /\ [][NextBounding]_vars

X == trace = <<>> /\ box = NoBox /\ Query("x", x(v))
Y == trace = <<>> /\ box = NoBox /\ Query("y", y(v))
Z == trace = <<>> /\ box = NoBox /\ Query("z", z(v))
W == trace = <<>> /\ box = NoBox /\ Query("w", w(v))
Left == trace = <<>> /\ box # NoBox /\ Query("left", left(box))
Width == trace = <<>> /\ box # NoBox /\ Query("width", width(box))
Right == trace = <<>> /\ box # NoBox /\ Query("right", right(box))
Top == trace = <<>> /\ box # NoBox /\ Query("top", top(box))
Height == trace = <<>> /\ box # NoBox /\ Query("height", height(box))
Bottom == trace = <<>> /\ box # NoBox /\ Query("bottom", bottom(box))
Back == trace = <<>> /\ box # NoBox /\ Query("back", back(box))
Depth == trace = <<>> /\ box # NoBox /\ Query("depth", depth(box))
Front == trace = <<>> /\ box # NoBox /\ Query("front", front(box))

\* The vectors and the box of the crate's documentation (lib.rs, lines
\* 79-87).
DocVectors == {<<1, 2>>, <<3, 4, 5>>, <<6, 7, 8, 9>>}
DocBox == Nested(<< <<0, 1, 2>>, <<3, 4, 5>> >>)

InitNamed ==
    /\ overflow_checks \in BOOLEAN
    /\ \/ /\ N \in 0..MaxVecN
          /\ a \in Vectors(N, Values)
          /\ box = NoBox
       \/ /\ a \in DocVectors
          /\ N = Len(a)
          /\ box = NoBox
       \/ /\ N \in 0..MaxBoxN
          /\ box \in Boxes(N, CoordValues, CoordValues)
          /\ a = <<>>
       \/ /\ N = 3
          /\ box = DocBox
          /\ a = <<>>
    /\ v = a
    /\ other = <<>>
    /\ t = 0
    /\ pts = <<>>
    /\ NoEnc
    /\ Idle

NextNamed ==
    \/ X \/ Y \/ Z \/ W
    \/ Left \/ Width \/ Right
    \/ Top \/ Height \/ Bottom
    \/ Back \/ Depth \/ Front
SpecNamed == InitNamed /\ [][NextNamed]_vars

\* One setter call on the box, made on both encodings; ret keeps its
\* arguments.
SetOriginDim ==
    /\ steps < MaxSets
    /\ \E i \in 0..(N - 1), val \in CoordValues :
          /\ flat' = flat_set_origin_dim(flat, i, val)
          /\ nested' = nested_set_origin_dim(nested, i, val)
          /\ ret' = <<i, val>>
    /\ prev_flat' = flat
    /\ prev_nested' = nested
    /\ trace' = <<"set_origin_dim">>
    /\ steps' = steps + 1
    /\ UNCHANGED <<overflow_checks, N, a, v, other, t, box, pts, panic>>

SetSizeDim ==
    /\ steps < MaxSets
    /\ \E i \in 0..(N - 1), val \in CoordValues :
          /\ flat' = flat_set_size_dim(flat, i, val)
          /\ nested' = nested_set_size_dim(nested, i, val)
          /\ ret' = <<i, val>>
    /\ prev_flat' = flat
    /\ prev_nested' = nested
    /\ trace' = <<"set_size_dim">>
    /\ steps' = steps + 1
    /\ UNCHANGED <<overflow_checks, N, a, v, other, t, box, pts, panic>>

\* One set_dim call on the point the boxes are asked about.
SetDim ==
    /\ steps < MaxSets
    /\ \E i \in 0..(N - 1), val \in CoordValues :
          /\ other' = set_dim(other, i, val)
          /\ ret' = <<i, val>>
    /\ prev_flat' = flat
    /\ prev_nested' = nested
    /\ trace' = <<"set_dim">>
    /\ steps' = steps + 1
    /\ UNCHANGED <<overflow_checks, N, a, v, t, box, pts, flat, nested, panic>>

InitEnc ==
    /\ overflow_checks \in BOOLEAN
    /\ N \in 1..MaxFlatArity
    /\ flat = flat_ORIGIN_ZERO_SIZE(N)
    /\ nested = nested_ORIGIN_ZERO_SIZE(N)
    /\ prev_flat = flat
    /\ prev_nested = nested
    /\ other = [i \in 1..N |-> ZERO]
    /\ box = NoBox
    /\ pts = <<>>
    /\ NoVec
    /\ Idle

NextEnc == SetOriginDim \/ SetSizeDim \/ SetDim
SpecEnc == InitEnc /\ [][NextEnc]_vars

----------------------------------------------------------------------------
(* Claims *)

\* The calls so far are the given methods, each in its by-value or its
\* in-place form.
Called(names) ==
    /\ Len(trace) = Len(names)
    /\ \A k \in 1..Len(names) :
          trace[k] = names[k] \/ trace[k] = names[k] \o "_assign"

\* C6: a.add(b).sub(b) == a component-wise, wrap-around included: whenever
\* add followed by sub of the same operand returns, the receiver is the
\* original vector again, and add alone yields a[i] + b[i] (modulo 2^8).
C6_AddSubRoundTrip ==
    /\ (Called(<<"add">>) /\ panic = "") =>
          \A i \in 0..(N - 1) : dim(v, i) = Wrap(dim(a, i) + dim(other, i))
    /\ (Called(<<"sub">>) /\ panic = "") =>
          \A i \in 0..(N - 1) : dim(v, i) = Wrap(dim(a, i) - dim(other, i))
    /\ (Called(<<"add", "sub">>) /\ panic = "") => v = a
    /\ (Called(<<"add", "sub">>) /\ ~overflow_checks) => panic = ""

\* C6 witness: an addition that wrapped around was undone by the subtraction.
C6_Witness ==
    /\ Called(<<"add", "sub">>)
    /\ panic = ""
    /\ N = 2
    /\ v = a
    /\ \E i \in 0..(N - 1) : ~InRange(dim(a, i) + dim(other, i))
    /\ \E i \in 0..(N - 1) : dim(other, i) # 0 /\ InRange(dim(a, i) + dim(other, i))

Dims == 0..(N - 1)

RECURSIVE SumOfProducts(_, _, _)
SumOfProducts(p, q, i) ==
    IF i = Len(p) THEN 0 ELSE dim(p, i) * dim(q, i) + SumOfProducts(p, q, i + 1)

\* C3: for every vector a and nonzero scalar s, a.mul(s).div(s) equals a
\* component-wise: div divides each component by the scalar and undoes mul.
C3_MulDivRoundTrip ==
    (Called(<<"mul", "div">>) /\ t # 0 /\ panic = "") => v = a

\* C4: a.dot(b) is the sum over the dimensions of a[i] * b[i].
C4_DotIsSumOfProducts ==
    (trace = <<"dot">> /\ panic = "") => ret = SumOfProducts(a, other, 0)

\* C5: for b with nonzero components, a.div2(b) is the component-wise
\* quotient a[i] / b[i], so that a.mul2(b).div2(b) == a; mul2 is the
\* component-wise product.
C5_Div2IsQuotient ==
    /\ (Called(<<"mul2">>) /\ panic = "") =>
          \A i \in Dims : dim(v, i) = dim(a, i) * dim(other, i)
    /\ (Called(<<"div2">>) /\ panic = "" /\ \A i \in Dims : dim(other, i) # 0) =>
          \A i \in Dims : dim(v, i) = TruncDiv(dim(a, i), dim(other, i))
    /\ (Called(<<"mul2", "div2">>) /\ panic = ""
          /\ \A i \in Dims : dim(other, i) # 0) => v = a

\* C7: lerp(a, b, 0) == a and lerp(a, b, 1) == b exactly, and for every t,
\* clamped nowhere, lerp(a, b, t)[i] = (1 - t) * a[i] + t * b[i] in the
\* arithmetic of the scalar.
C7_Lerp ==
    Called(<<"lerp">>) =>
        /\ t = 0 => (panic = "" /\ v = a)
        /\ t = 1 => (panic = "" /\ v = other)
        /\ panic = "" =>
              \A i \in Dims :
                  dim(v, i) = Wrap((1 - t) * dim(a, i) + t * dim(other, i))
        /\ (\A i \in Dims : /\ InRange((1 - t) * dim(a, i))
                            /\ InRange(t * dim(other, i))
                            /\ InRange((1 - t) * dim(a, i) + t * dim(other, i))) =>
              /\ panic = ""
              /\ \A i \in Dims :
                    dim(v, i) = (1 - t) * dim(a, i) + t * dim(other, i)

\* C7 witness: an interpolation outside [0, 1] of a two-dimensional vector
\* whose result is neither end point.
C7_Witness ==
    /\ Called(<<"lerp">>)
    /\ panic = ""
    /\ N = 2
    /\ t < 0
    /\ v # a
    /\ v # other
    /\ dim(v, 0) = 2 * dim(a, 0) - dim(other, 0)

Comparable(p) == \A i \in 1..Len(p) : p[i] # NaN
Components(p) == {p[i] : i \in 1..Len(p)}

\* C9: on a vector of arity >= 1 with mutually comparable components
\* min_dim returns a component <= every component and max_dim one >= every
\* component; on arity 0 both panic with the 'empty' message, and a failed
\* pairwise comparison panics with another message.
C9_MinMaxDim ==
    /\ trace = <<"min_dim">> =>
        /\ N = 0 => panic = "empty vectors have no dimensions"
        /\ (N >= 1 /\ Comparable(a)) =>
              /\ panic = ""
              /\ ret \in Components(a)
              /\ \A c \in Components(a) : ret <= c
        /\ (N >= 2 /\ ~Comparable(a)) => panic = "dimension comparison failed"
    /\ trace = <<"max_dim">> =>
        /\ N = 0 => panic = "empty vectors have no dimensions"
        /\ (N >= 1 /\ Comparable(a)) =>
              /\ panic = ""
              /\ ret \in Components(a)
              /\ \A c \in Components(a) : ret >= c
        /\ (N >= 2 /\ ~Comparable(a)) => panic = "dimension comparison failed"

\* C9 witness: min_dim returned a minimum that is not the first component
\* and differs from the maximum.
C9_Witness ==
    /\ trace = <<"min_dim">>
    /\ panic = ""
    /\ N >= 3
    /\ ret < dim(a, 0)
    /\ \E c \in Components(a) : c > dim(a, 0)

BoxDims == 0..(BoxN(box) - 1)

\* C1: contains(p) is true exactly when origin[i] <= p[i] <= origin[i] +
\* size[i] in every dimension i, both ends included; the box with origin
\* (1,0) and size (4,5) contains (2,2), (1,0) and (5,5) and rejects (5,6).
C1_ContainsInclusive ==
    trace = <<"contains">> =>
        /\ panic = ""
        /\ ret = (\A i \in BoxDims :
                     /\ origin_dim(box, i) <= dim(other, i)
                     /\ dim(other, i) <= origin_dim(box, i) + size_dim(box, i))
        /\ box = Flat(<<1, 0, 4, 5>>) =>
              /\ other \in {<<2, 2>>, <<1, 0>>, <<5, 5>>} => ret = TRUE
              /\ other = <<5, 6>> => ret = FALSE

\* C1 witness: a point on the far corner of a two-dimensional box of
\* positive size is contained.
C1_Witness ==
    /\ trace = <<"contains">>
    /\ ret = TRUE
    /\ BoxN(box) = 2
    /\ \A i \in BoxDims :
          /\ size_dim(box, i) > 0
          /\ dim(other, i) = origin_dim(box, i) + size_dim(box, i)

Coords(points, i) == {dim(points[k], i) : k \in 1..Len(points)}
MinOf(S) == CHOOSE m \in S : \A k \in S : m <= k
MaxOf(S) == CHOOSE m \in S : \A k \in S : m >= k

\* C2: bounding returns None exactly for the empty sequence; for a
\* non-empty one, in any order, origin[i] is the minimum of p[i] over the
\* points and size[i] the maximum minus that minimum, every point is
\* contained in the result, and one point gives a zero-size box at it.
C2_BoundingMinimal ==
    trace = <<"bounding">> =>
        /\ panic = ""
        /\ ret.some = (pts # <<>>)
        /\ pts # <<>> =>
              /\ ret.val.enc = box.enc
              /\ BoxN(ret.val) = N
              /\ \A i \in Dims :
                    /\ origin_dim(ret.val, i) = MinOf(Coords(pts, i))
                    /\ size_dim(ret.val, i) =
                          MaxOf(Coords(pts, i)) - MinOf(Coords(pts, i))
              /\ \A k \in 1..Len(pts) : contains(ret.val, pts[k]) = Ok(TRUE)
        /\ Len(pts) = 1 =>
              \A i \in Dims : /\ origin_dim(ret.val, i) = dim(pts[1], i)
                              /\ size_dim(ret.val, i) = 0
        /\ pts = << <<0, 0>>, <<2, 3>>, <<-1, 5>> >> =>
              /\ \A i \in Dims : origin_dim(ret.val, i) = dim(<<-1, 0>>, i)
              /\ \A i \in Dims : size_dim(ret.val, i) = dim(<<3, 5>>, i)

\* C2 witness: three two-dimensional points where the minimum of one
\* dimension and the maximum of the other come from points after the first.
C2_Witness ==
    /\ trace = <<"bounding">>
    /\ N = 2
    /\ Len(pts) = 3
    /\ ret.some
    /\ origin_dim(ret.val, 0) < dim(pts[1], 0)
    /\ origin_dim(ret.val, 1) + size_dim(ret.val, 1) > dim(pts[1], 1)
    /\ size_dim(ret.val, 0) > 0

\* C8: the named accessors are aliases of indexed access: on a vector of
\* sufficient arity x/y/z/w equal dim(0..3); on a box left/top/back equal
\* origin_dim(0..2), width/height/depth equal size_dim(0..2), and
\* right = left + width, bottom = top + height, front = back + depth.
C8_NamedAliases ==
    /\ \A k \in 0..3 :
          (trace = <<(<<"x", "y", "z", "w">>)[k + 1]>> /\ N > k) =>
              panic = "" /\ ret = dim(v, k)
    /\ \A k \in 0..2 :
          /\ (trace = <<(<<"left", "top", "back">>)[k + 1]>> /\ N > k) =>
                panic = "" /\ ret = origin_dim(box, k)
          /\ (trace = <<(<<"width", "height", "depth">>)[k + 1]>> /\ N > k) =>
                panic = "" /\ ret = size_dim(box, k)
          /\ (trace = <<(<<"right", "bottom", "front">>)[k + 1]>> /\ N > k) =>
                panic = "" /\ ret = origin_dim(box, k) + size_dim(box, k)
    /\ (trace = <<"right">> /\ N > 0) => ret = left(box).val + width(box).val
    /\ (trace = <<"bottom">> /\ N > 1) => ret = top(box).val + height(box).val
    /\ (trace = <<"front">> /\ N > 2) => ret = back(box).val + depth(box).val
    /\ (box = NoBox /\ a \in DocVectors /\ steps = 1) =>
          ret = CASE trace = <<"x">> -> a[1]
                  [] trace = <<"y">> -> a[2]
                  [] trace = <<"z">> /\ N > 2 -> a[3]
                  [] trace = <<"w">> /\ N > 3 -> a[4]
                  [] OTHER -> ret
    /\ (box = DocBox /\ steps = 1) =>
          ret = CASE trace = <<"left">> -> 0
                  [] trace = <<"top">> -> 1
                  [] trace = <<"back">> -> 2
                  [] trace = <<"right">> -> 3
                  [] trace = <<"bottom">> -> 5
                  [] trace = <<"front">> -> 7
                  [] trace = <<"width">> -> 3
                  [] trace = <<"height">> -> 4
                  [] trace = <<"depth">> -> 5

\* C8 witness: front() of a flat three-dimensional box returned the sum of
\* two different components.
C8_Witness ==
    /\ trace = <<"front">>
    /\ panic = ""
    /\ box.enc = "flat"
    /\ BoxN(box) = 3
    /\ box.raw[3] # 0
    /\ box.raw[6] # 0
    /\ box.raw[1] = 0
    /\ ret = box.raw[3] + box.raw[6]

\* The mapping between the two encodings: flat = origin followed by size.
Related == flat = nested[1] \o nested[2]

\* The last setter call changed the component it addressed, to the value it
\* was given, and no other component of the box.
OnlyAddressedChanged(bx, before) ==
    \A j \in Dims :
        /\ origin_dim(bx, j) =
              IF trace = <<"set_origin_dim">> /\ j = ret[1] THEN ret[2]
              ELSE origin_dim(before, j)
        /\ size_dim(bx, j) =
              IF trace = <<"set_size_dim">> /\ j = ret[1] THEN ret[2]
              ELSE size_dim(before, j)

\* C10: the flat and the nested encoding of a box of arity 1..8 stay
\* related under every sequence of set_origin_dim / set_size_dim calls made
\* on both, each setter changes the addressed component only, and
\* origin_dim, size_dim, end_dim, center_dim and contains agree on them.
C10_EncodingsEquivalent ==
    /\ Related
    /\ Len(flat) = 2 * N
    /\ OnlyAddressedChanged(Flat(flat), Flat(prev_flat))
    /\ OnlyAddressedChanged(Nested(nested), Nested(prev_nested))
    /\ \A j \in Dims :
          /\ origin_dim(Flat(flat), j) = origin_dim(Nested(nested), j)
          /\ size_dim(Flat(flat), j) = size_dim(Nested(nested), j)
          /\ end_dim(Flat(flat), j) = end_dim(Nested(nested), j)
          /\ center_dim(Flat(flat), j) = center_dim(Nested(nested), j)
    /\ contains(Flat(flat), other) = contains(Nested(nested), other)

\* C10 witness: after a size and an origin were set on a box of arity 8,
\* both encodings hold them and contain the point.
C10_Witness ==
    /\ N = MaxFlatArity
    /\ steps = 2
    /\ trace = <<"set_origin_dim">>
    /\ \E j \in Dims :
          /\ size_dim(Flat(flat), j) = -1
          /\ origin_dim(Flat(flat), (j + 1) % N) = -1
          /\ center_dim(Nested(nested), j) = Ok(0)
    /\ contains(Flat(flat), other) = Ok(FALSE)

=============================================================================
